---- MODULE Spec2Model ----
(***************************************************************************)
(* Model of metaprogrammed_polymorphism/polymorphic.hpp: the synthesized   *)
(* dispatch table (vtable_entry, vtable_imp), the non-owning handle ref,   *)
(* and the owning handle object_imp in its mutable (unique_ptr<holder>)    *)
(* and shared (shared_ptr<const holder>) shapes.                           *)
(*                                                                         *)
(* Indices are 0-based as in the source; TLA+ sequences are 1-based, so    *)
(* element I of an array a is written a[I + 1].                            *)
(***************************************************************************)
EXTENDS Integers, Sequences, FiniteSets, TLC

VARIABLES handles, heap, stack, last, tbl, dtor

vars == <<handles, heap, stack, last, tbl, dtor>>

----------------------------------------------------------------------------
(* Bounds *)

MaxHandles == 3        \* handle variables of the dispatch program
MaxOwners == 2         \* handle variables of the ownership program
MaxHolders == 2        \* holders allocated in one run
MaxVal == 1            \* held values range over 0..MaxVal
MaxUserSigs == 257     \* longest user signature list tried against the table capacity

----------------------------------------------------------------------------
(* Signatures, concrete types and the consumer's free functions *)

NULL == 0

Types == {"Circle", "Square"}

\* the concrete type the owning program erases
OwnerTypes == {"Circle"}

clone == "clone"

UserMethods == {"draw", "grow"}

OwnerMethods == {"draw", "area", "grow"}

Methods == UserMethods \cup {clone}

\* the owning program's handle types: one mutable shape and two orderings of
\* the shared shape it converts to
OwnerSigLists ==
  {<<"draw", "area", "grow">>, <<"draw", "area">>, <<"area", "draw">>}

\* vtable_entry<...>::is_const; copyable is declared const
IsConstSig(s) == s \in {"draw", "area", clone}

\* numeric_limits<index_type>::max() for index_type = std::uint8_t
IndexTypeMax == 255

ToIndexType(i) == i % (IndexTypeMax + 1)

InjectiveSeqs(S, n) ==
  {s \in UNION {[1..k -> S] : k \in 1..n} :
     \A i, j \in DOMAIN s : i # j => s[i] # s[j]}

UserSigLists == InjectiveSeqs(UserMethods, Cardinality(UserMethods))

\* object<Signatures...> = object_imp<all_const, Signatures..., copyable>
ObjectSigs(usersigs) == Append(usersigs, clone)

\* ref<Signatures...> over a user's list, with or without copyable
RefSigLists == UserSigLists \cup {ObjectSigs(usersigs) : usersigs \in UserSigLists}

\* entries<...>::all_const
all_const(sigs) == \A i \in 1..Len(sigs) : IsConstSig(sigs[i])

\* The free functions poly_extend(Method *, T &, ...) a consumer supplies,
\* one per (method, concrete type); ret is what the call returns and val is
\* the value the receiver holds afterwards.
poly_extend_user(m, T, v) ==
  CASE m = "draw" -> [ret |-> [m |-> "draw", T |-> T, v |-> v], val |-> v]
    [] m = "area" -> [ret |-> [m |-> "area", T |-> T, v |-> v * v], val |-> v]
    [] m = "grow" -> [ret |-> [m |-> "grow", T |-> T, v |-> 0], val |-> v + 1]

\* a clone that default-constructs the held value instead of copying it
poly_extend_clone_nocopy(T, v) ==
  [ret |-> [m |-> clone, T |-> T, v |-> 0], val |-> v]

\* poly_extend(clone *, const T &): a new holder_imp<T> holding a copy of t
poly_extend_clone(T, v) ==
  [ret |-> [m |-> clone, T |-> T, v |-> v], val |-> v]

poly_extend(m, T, v) ==
  IF m = clone THEN poly_extend_clone(T, v) ELSE poly_extend_user(m, T, v)

----------------------------------------------------------------------------
(* Table entry and table *)

\* vtable_entry<I, Signature>::get_index
has_index(sigs, s) == \E i \in 1..Len(sigs) : sigs[i] = s

get_index(sigs, s) == CHOOSE i \in 0..(Len(sigs) - 1) : sigs[i + 1] = s

\* vtable_entry<I, Signature>::get_entry(type<T>): the stub for (T, Signature)
get_entry(T, s) == [T |-> T, m |-> s]

\* the stub's body: cast the erased address to T * and forward
stub_call(stub, v) == poly_extend(stub.m, stub.T, v)

\* vtable_imp::get_vtable(type<T>): the address of the static array vt
get_vtable(T, sigs) == [T |-> T, layout |-> sigs]

\* a static array whose initializer list is expanded in reverse order
vt_array_reversed(vptr) ==
  [i \in 0..(Len(vptr.layout) - 1) |->
     get_entry(vptr.T, vptr.layout[Len(vptr.layout) - i])]

\* the contents of the static array a vptr_ points to
vt_array(vptr) ==
  [i \in 0..(Len(vptr.layout) - 1) |-> get_entry(vptr.T, vptr.layout[i + 1])]

NoVtable == [vptr_ |-> [T |-> "none", layout |-> <<>>], permutation_ |-> <<>>]

\* vtable_imp(type<T>)
vtable_from_type(T, sigs) ==
  [vptr_ |-> get_vtable(T, sigs),
   permutation_ |-> [i \in 1..Len(sigs) |-> ToIndexType(i - 1)]]

\* a conversion that takes the source's slot index without going through
\* the source's permutation
vtable_from_other_direct(sigs, othersigs, other) ==
  [vptr_ |-> other.vptr_,
   permutation_ |->
     [i \in 1..Len(sigs) |-> ToIndexType(get_index(othersigs, sigs[i]))]]

\* vtable_imp(const vtable_imp<OtherSequence, OtherSignatures...> &)
vtable_from_other(sigs, othersigs, other) ==
  [vptr_ |-> other.vptr_,
   permutation_ |->
     [i \in 1..Len(sigs) |->
        other.permutation_[get_index(othersigs, sigs[i]) + 1]]]

\* the conversion is instantiable only if get_index resolves for every signature
Convertible(sigs, othersigs) == \A i \in 1..Len(sigs) : has_index(othersigs, sigs[i])

\* vtable_entry<I, Signature>::call_imp: the stub reached for Method
call_imp(vt, sigs, m) == vt_array(vt.vptr_)[vt.permutation_[get_index(sigs, m) + 1]]

----------------------------------------------------------------------------
(* Holders, handles and the values they reach *)

Max2(a, b) == IF a > b THEN a ELSE b

HandleIds == 1..Max2(MaxHandles, MaxOwners)

DispatchIds == 1..MaxHandles

OwnerIds == 1..MaxOwners

HolderIds == 1..MaxHolders

\* the values a ref is bound to directly: one automatic variable per type,
\* at addresses past the holders'
StackBase == MaxHolders

StackAddrs == {StackBase + 1, StackBase + 2}

StackType(a) == IF a = StackBase + 1 THEN "Circle" ELSE "Square"

NoHolder ==
  [alloc |-> FALSE, T |-> "none", v |-> 0, ptr |-> NULL, del |-> "none",
   use_count |-> 0, released |-> 0, destroyed |-> 0]

NoHandle ==
  [kind |-> "none", sigs |-> <<>>, vt_ |-> NoVtable, t_ |-> NULL, direct |-> FALSE]

NoOp == [op |-> "none", outcome |-> "ok"]

\* what the last operation left behind when its instantiation was rejected:
\* a program that is accepted leaves no trace
Op(op, outcome) ==
  IF outcome = "ok" THEN NoOp ELSE [op |-> op, outcome |-> outcome]

Rejected(l) == l.outcome = "ill_formed"

\* a program with a rejected instantiation is not built, and runs no further
Accepted == ~Rejected(last)

\* holder_imp<T>(T t): t_(std::move(t)), ptr = &t_; the holder's id stands
\* for the address of its t_
holder_imp(id, T, v, del, count) ==
  [alloc |-> TRUE, T |-> T, v |-> v, ptr |-> id, del |-> del,
   use_count |-> count, released |-> 0, destroyed |-> 0]

Allocated == {id \in HolderIds : heap[id].alloc}

NextHolder == Cardinality(Allocated) + 1

CanAllocate == NextHolder \in HolderIds

Live(a) == a \in StackAddrs \/ (a \in HolderIds /\ heap[a].alloc /\ heap[a].released = 0)

\* the value at an erased address, in a given heap and stack
ValIn(a, hp, st) ==
  IF a \in StackAddrs THEN st[a] ELSE IF a \in HolderIds THEN hp[a].v ELSE 0

ValAt(a) == ValIn(a, heap, stack)

TypeAt(a) ==
  IF a \in StackAddrs THEN StackType(a)
  ELSE IF a \in HolderIds THEN heap[a].T ELSE "none"

IsShared(h) == h.kind = "object" /\ all_const(h.sigs)

IsMutable(h) == h.kind = "object" /\ ~all_const(h.sigs)

\* ref::get_ptr, object_imp::get_ptr
PtrIn(h, hp) ==
  IF h.kind = "ref" THEN h.t_
  ELSE IF h.t_ # NULL THEN hp[h.t_].ptr ELSE NULL

get_ptr(h) == PtrIn(h, heap)

\* an operator bool that reports every handle as non-empty
operator_bool_always(h) == TRUE

\* ref::operator bool, object_imp::operator bool
operator_bool(h) == h.t_ # NULL

\* vtable_imp::call: the stub a call<Method> reaches through the handle
call(h, m) == call_imp(h.vt_, h.sigs, m)

\* ref(T &t)
ref_from_value(sigs, a) ==
  [kind |-> "ref", sigs |-> sigs, vt_ |-> vtable_from_type(TypeAt(a), sigs),
   t_ |-> a, direct |-> TRUE]

\* a converting constructor that builds a table of its own for the ref
ref_from_poly_rebuilt(sigs, other, ptr) ==
  [kind |-> "ref", sigs |-> sigs,
   vt_ |-> vtable_from_type(other.vt_.vptr_.T, sigs),
   t_ |-> ptr, direct |-> FALSE]

\* ref(const Poly &other)
ref_from_poly(sigs, other, ptr) ==
  [kind |-> "ref", sigs |-> sigs,
   vt_ |-> vtable_from_other(sigs, other.sigs, other.vt_),
   t_ |-> ptr, direct |-> FALSE]

\* t_(other.get_ptr()) converts only towards const: get_ptr() of a
\* const Poly & is const void * unless Poly is a ref over void *
PtrConvertible(sigs, other) ==
  all_const(sigs) \/ (other.kind = "ref" /\ ~all_const(other.sigs))

\* object_imp(T t)
object_from_value(sigs, T, id) ==
  [kind |-> "object", sigs |-> sigs, vt_ |-> vtable_from_type(T, sigs),
   t_ |-> id, direct |-> TRUE]

\* object_imp(const Poly &other), object_imp(const object_imp &other)
object_from_poly(sigs, other, id) ==
  [kind |-> "object", sigs |-> sigs,
   vt_ |-> vtable_from_other(sigs, other.sigs, other.vt_),
   t_ |-> id, direct |-> FALSE]

\* the deleter a new owner of a holder_imp<T> runs: make_shared remembers
\* holder_imp<T>, unique_ptr<holder> and a shared_ptr built from one delete
\* through holder *
DeleterOf(sigs, fromValue) ==
  IF all_const(sigs) /\ fromValue THEN "holder_imp" ELSE "holder"

\* ~holder() is not virtual: deleting a holder_imp<T> through holder * is
\* undefined, and whether the held T is destroyed is up to the build (dtor);
\* the deleter make_shared records destroys it
DestroyedBy(del) == IF del = "holder_imp" \/ dtor THEN 1 ELSE 0

\* the storage is gone: only the counts of what happened to it remain
release(hd, d) ==
  [NoHolder EXCEPT !.alloc = TRUE, !.ptr = hd.ptr,
                   !.released = hd.released + 1, !.destroyed = hd.destroyed + d]

----------------------------------------------------------------------------
(* Initial state *)

NoTable == [nuser |-> 0, owning |-> FALSE, nsig |-> 0, built |-> "none", slot |-> 0, entry |-> 0]

Init ==
  /\ handles = [h \in HandleIds |-> NoHandle]
  /\ heap = [id \in HolderIds |-> NoHolder]
  /\ stack = [a \in StackAddrs |-> 0]
  /\ last = NoOp
  /\ tbl = NoTable
  /\ dtor \in BOOLEAN

----------------------------------------------------------------------------
(* Construction of handles *)

\* ref(T &t): bind a ref to an automatic variable
RefFromValue(d, sigs, a) ==
  /\ Accepted
  /\ handles[d] = NoHandle
  /\ handles' = [handles EXCEPT ![d] = ref_from_value(sigs, a)]
  /\ last' = NoOp
  /\ UNCHANGED <<heap, stack, tbl, dtor>>

\* ref(const Poly &other)
RefFromPoly(d, sigs, s) ==
  /\ Accepted
  /\ d # s
  /\ handles[d] = NoHandle
  /\ handles[s] # NoHandle
  /\ Convertible(sigs, handles[s].sigs)
  /\ PtrConvertible(sigs, handles[s])
  /\ handles' = [handles EXCEPT
                   ![d] = ref_from_poly(sigs, handles[s], get_ptr(handles[s]))]
  /\ last' = NoOp
  /\ UNCHANGED <<heap, stack, tbl, dtor>>

\* object_imp(T t): erase a value into a fresh holder
ObjectFromValue(d, usersigs, T, v) ==
  LET sigs == ObjectSigs(usersigs)
      id == NextHolder
  IN /\ Accepted
     /\ handles[d] = NoHandle
     /\ CanAllocate
     /\ handles' = [handles EXCEPT ![d] = object_from_value(sigs, T, id)]
     /\ heap' = [heap EXCEPT
                   ![id] = holder_imp(id, T, v, DeleterOf(sigs, TRUE),
                                      IF all_const(sigs) THEN 1 ELSE 0)]
     /\ last' = NoOp
     /\ UNCHANGED <<stack, tbl, dtor>>

\* t_(other ? other.call<detail::clone>() : nullptr): dst becomes a handle
\* with signature list sigs over a clone of what other holds, or empty
CloneInto(d, sigs, s) ==
  LET other == handles[s]
      a == get_ptr(other)
      id == NextHolder
      made == stub_call(call(other, clone), ValAt(a)).ret
  IN IF operator_bool(other)
     THEN /\ CanAllocate
          /\ handles' = [handles EXCEPT ![d] = object_from_poly(sigs, other, id)]
          /\ heap' = [heap EXCEPT
                        ![id] = holder_imp(id, made.T, made.v, DeleterOf(sigs, FALSE),
                                           IF all_const(sigs) THEN 1 ELSE 0)]
          /\ last' = NoOp
     ELSE /\ handles' = [handles EXCEPT ![d] = object_from_poly(sigs, other, NULL)]
          /\ heap' = heap
          /\ last' = NoOp

\* object_imp(const Poly &other), for a source of another handle type.
\* For a shared source and a shared target overload resolution picks
\* object_imp(const object_imp<true, OtherSignatures...> &other), which reads
\* other.t_, a private member of a different class: the construction is
\* rejected when it is instantiated, and nothing is built.
ObjectFromPoly(d, usersigs, s) ==
  LET sigs == ObjectSigs(usersigs)
      other == handles[s]
  IN /\ Accepted
     /\ d # s
     /\ handles[d] = NoHandle
     /\ other # NoHandle
     /\ ~(other.kind = "object" /\ other.sigs = sigs)
     /\ Convertible(sigs, other.sigs)
     /\ get_ptr(other) # NULL => Live(get_ptr(other))
     /\ IF all_const(sigs) /\ IsShared(other)
        THEN /\ last' = Op("object_from_shared", "ill_formed")
             /\ UNCHANGED <<handles, heap>>
        ELSE CloneInto(d, sigs, s)
     /\ UNCHANGED <<stack, tbl, dtor>>

\* object_imp(const object_imp &other): clone for the mutable shape,
\* = default (share) for the shared shape
CopyConstruct(d, s) ==
  LET other == handles[s]
  IN /\ Accepted
     /\ d # s
     /\ handles[d] = NoHandle
     /\ other.kind = "object"
     /\ get_ptr(other) # NULL => Live(get_ptr(other))
     /\ IF IsShared(other)
        THEN /\ handles' = [handles EXCEPT ![d] = other]
             /\ heap' = IF other.t_ = NULL THEN heap
                        ELSE [heap EXCEPT ![other.t_].use_count = @ + 1]
             /\ last' = NoOp
        ELSE CloneInto(d, other.sigs, s)
     /\ UNCHANGED <<stack, tbl, dtor>>

\* object_imp(object_imp &&) = default: vt_ is copied, t_ is moved from
MoveConstruct(d, s) ==
  LET other == handles[s]
  IN /\ Accepted
     /\ d # s
     /\ handles[d] = NoHandle
     /\ other.kind = "object"
     /\ handles' = [handles EXCEPT ![d] = other, ![s].t_ = NULL]
     /\ last' = NoOp
     /\ UNCHANGED <<heap, stack, tbl, dtor>>

----------------------------------------------------------------------------
(* Assignment, destruction and calls *)

\* ref(other) names the class template without arguments, and no constructor
\* of ref mentions Signatures...: the pack is deduced as empty, ref<>
DeducedRefSigs == <<>>

\* using vtable_t = const detail::vtable<Signatures...>; vtable_t vt_;
vt_is_const == TRUE

\* operator=(...) = default is defined as deleted for a class with a const
\* non-static data member
DefaultedAssignmentUsable == ~vt_is_const

\* (*this) = ref(other): the right-hand side must convert to object_imp
\* through object_imp(const Poly &), which needs every signature of the
\* object in ref<>
MutableCopyAssignOutcome(sigs) ==
  IF Convertible(sigs, DeducedRefSigs) THEN "ok" ELSE "ill_formed"

\* object_imp &operator=(const object_imp &other) { (*this) = ref(other); }
\* for the mutable shape, = default for the shared shape.  Neither has a
\* well-formed instantiation, so an assignment is rejected and has no effect.
CopyAssign(d, s) ==
  LET self == handles[d]
      other == handles[s]
  IN /\ Accepted
     /\ self.kind = "object"
     /\ other.kind = "object"
     /\ self.sigs = other.sigs
     /\ last' = Op("copy_assign",
                   IF IsShared(self)
                   THEN (IF DefaultedAssignmentUsable THEN "ok" ELSE "ill_formed")
                   ELSE MutableCopyAssignOutcome(self.sigs))
     /\ UNCHANGED <<handles, heap, stack, tbl, dtor>>

\* object_imp &operator=(object_imp &&) = default: deleted in both shapes, and
\* a deleted defaulted move assignment is ignored by overload resolution, so
\* the mutable shape falls back on operator=(const object_imp &)
MoveAssign(d, s) ==
  LET self == handles[d]
      other == handles[s]
  IN /\ Accepted
     /\ d # s
     /\ self.kind = "object"
     /\ other.kind = "object"
     /\ self.sigs = other.sigs
     /\ last' = Op("move_assign",
                   IF DefaultedAssignmentUsable THEN "ok"
                   ELSE IF IsShared(self) THEN "ill_formed"
                   ELSE MutableCopyAssignOutcome(self.sigs))
     /\ UNCHANGED <<handles, heap, stack, tbl, dtor>>

\* the destructors: ~ref releases nothing, ~unique_ptr<holder> deletes its
\* holder, ~shared_ptr<const holder> drops one share and the last one deletes
Destroy(d) ==
  LET self == handles[d]
      t == self.t_
  IN /\ Accepted
     /\ self # NoHandle
     /\ handles' = [handles EXCEPT ![d] = NoHandle]
     /\ last' = NoOp
     /\ IF self.kind = "ref" \/ t = NULL
        THEN heap' = heap
        ELSE IF IsShared(self) /\ heap[t].use_count > 1
        THEN heap' = [heap EXCEPT ![t].use_count = @ - 1]
        ELSE heap' = [heap EXCEPT ![t] = release(heap[t], DestroyedBy(heap[t].del))]
     /\ UNCHANGED <<stack, tbl, dtor>>

\* ref::call<Method>, object_imp::call<Method>.  Calling through an empty
\* handle or a dead address is a precondition violation.
Call(h, m) ==
  LET self == handles[h]
      a == get_ptr(self)
      r == stub_call(call(self, m), ValAt(a))
  IN /\ Accepted
     /\ self # NoHandle
     /\ m # clone
     /\ has_index(self.sigs, m)
     /\ operator_bool(self)
     /\ Live(a)
     /\ r.val \in 0..MaxVal
     /\ IF a \in StackAddrs
        THEN /\ stack' = [stack EXCEPT ![a] = r.val]
             /\ heap' = heap
        ELSE /\ heap' = [heap EXCEPT ![a].v = r.val]
             /\ stack' = stack
     /\ last' = NoOp
     /\ UNCHANGED <<handles, tbl, dtor>>

----------------------------------------------------------------------------
(* The dispatch program: handle 1 is built over an automatic variable or a  *)
(* value-initialised T and lives to the end of the program, every later     *)
(* handle is built from the one before it in an inner scope, and the inner  *)
(* handles are destroyed in the reverse order of their construction         *)

Newest(d) == d # 1 /\ \A e \in DispatchIds : e > d => handles[e] = NoHandle

Next ==
  \/ \E sigs \in RefSigLists, a \in StackAddrs : RefFromValue(1, sigs, a)
  \/ \E usersigs \in UserSigLists, T \in Types : ObjectFromValue(1, usersigs, T, 0)
  \/ \E d \in DispatchIds \ {1}, sigs \in RefSigLists : RefFromPoly(d, sigs, d - 1)
  \/ \E d \in DispatchIds \ {1}, usersigs \in UserSigLists :
       ObjectFromPoly(d, usersigs, d - 1)
  \/ \E d \in DispatchIds, m \in Methods : Call(d, m)
  \/ \E d \in DispatchIds : Newest(d) /\ Destroy(d)

Spec == Init /\ [][Next]_vars

----------------------------------------------------------------------------
(* The owning program: objects built over a value-initialised T that are    *)
(* copied, moved, assigned, called and destroyed in any order; a new object *)
(* takes the first handle variable that is free                             *)

FirstFree(d) == \A e \in OwnerIds : e < d => handles[e] # NoHandle

NextOwn ==
  \/ \E d \in OwnerIds, usersigs \in OwnerSigLists, T \in OwnerTypes :
       FirstFree(d) /\ ObjectFromValue(d, usersigs, T, 0)
  \/ \E d, s \in OwnerIds, usersigs \in OwnerSigLists :
       FirstFree(d) /\ ObjectFromPoly(d, usersigs, s)
  \/ \E d, s \in OwnerIds : FirstFree(d) /\ CopyConstruct(d, s)
  \/ \E d, s \in OwnerIds : FirstFree(d) /\ MoveConstruct(d, s)
  \/ \E d, s \in OwnerIds : CopyAssign(d, s)
  \/ \E d, s \in OwnerIds : MoveAssign(d, s)
  \/ \E d \in OwnerIds, m \in OwnerMethods : Call(d, m)
  \/ \E d \in OwnerIds : Destroy(d)

SpecOwn == Init /\ [][NextOwn]_vars

----------------------------------------------------------------------------
(* Building one table: the capacity check and the identity permutation *)

\* a capacity check that admits one more signature than index_type counts to
table_accepted_256(n) == n <= IndexTypeMax + 1

\* static_assert(sizeof...(Signatures) <= std::numeric_limits<index_type>::max())
table_accepted(n) == n <= IndexTypeMax

\* sizeof...(Signatures) of the table of a ref (the user's list) or of an
\* object (the user's list and copyable)
TableSize(nuser, owning) == IF owning THEN nuser + 1 ELSE nuser

InitCap ==
  /\ handles = [h \in HandleIds |-> NoHandle]
  /\ heap = [id \in HolderIds |-> NoHolder]
  /\ stack = [a \in StackAddrs |-> 0]
  /\ last = NoOp
  /\ dtor \in BOOLEAN
  /\ \E nuser \in 0..MaxUserSigs, owning \in BOOLEAN :
       tbl = [nuser |-> nuser, owning |-> owning,
              nsig |-> TableSize(nuser, owning),
              built |-> "pending", slot |-> 0, entry |-> 0]

\* the instantiation of vtable_imp<index_sequence<I...>, Signatures...>
Instantiate ==
  /\ tbl.built = "pending"
  /\ tbl' = [tbl EXCEPT
               !.built = IF table_accepted(tbl.nsig) THEN "accepted" ELSE "rejected"]
  /\ UNCHANGED <<handles, heap, stack, last, dtor>>

\* permutation_{I...}: slot counts the entries initialised so far and entry
\* is the index_type value stored last
FillPermutation ==
  /\ tbl.built = "accepted"
  /\ tbl.slot < tbl.nsig
  /\ tbl' = [tbl EXCEPT !.slot = @ + 1, !.entry = ToIndexType(tbl.slot)]
  /\ UNCHANGED <<handles, heap, stack, last, dtor>>

NextCap == Instantiate \/ FillPermutation

SpecCap == InitCap /\ [][NextCap]_vars

----------------------------------------------------------------------------
(* Properties *)

SigsOf(h) == {h.sigs[i] : i \in 1..Len(h.sigs)}

\* what call<m> through handle h returns and leaves behind, in a given state
CallIn(h, m, hp, st) == stub_call(call(h, m), ValIn(PtrIn(h, hp), hp, st))

Owners(id) == {h \in HandleIds : handles[h].kind = "object" /\ handles[h].t_ = id}

OwnersIn(id, hs) == {h \in HandleIds : hs[h].kind = "object" /\ hs[h].t_ = id}

NonEmpty(h) == h.t_ # NULL

\* the step constructs handle d
Built(d) == handles[d] = NoHandle /\ handles'[d] # NoHandle

\* the user's list of an object's signature list
UserSigs(sigs) == SubSeq(sigs, 1, Len(sigs) - 1)

\* C1: through a handle built directly over a value of T, every declared
\* method returns (and leaves behind) what T's own poly_extend for that
\* method does on the held value.
C1_DirectDispatch ==
  \A h \in HandleIds :
    LET self == handles[h]
        a == get_ptr(self)
    IN (self # NoHandle /\ self.direct /\ a # NULL /\ Live(a)) =>
         \A m \in SigsOf(self) :
           CallIn(self, m, heap, stack) = poly_extend(m, TypeAt(a), ValAt(a))

C1_Witness ==
  \E h \in HandleIds :
    /\ handles[h].kind = "object"
    /\ handles[h].direct
    /\ handles[h].sigs = <<"grow", "draw", clone>>
    /\ heap[handles[h].t_].T = "Square"
    /\ ValAt(get_ptr(handles[h])) > 0

\* what C2 says of a handle new converted from a handle src
Rebuilt(new, src, hp, st, hp2, st2) ==
  /\ \A i \in 1..Len(new.sigs) :
       new.vt_.permutation_[i] =
         src.vt_.permutation_[get_index(src.sigs, new.sigs[i]) + 1]
  /\ \A m \in SigsOf(new) : call(new, m) = call(src, m)
  /\ NonEmpty(src) =>
       \A m \in SigsOf(new) : CallIn(new, m, hp2, st2) = CallIn(src, m, hp, st)

\* C2: a handle converted from a source handle has
\* permutation[i] = source.permutation[source index of its i-th signature],
\* reaches the same stub as the source for each of its methods, and gets the
\* same result from it.
C2_PermutationRebuild ==
  [][\A d \in HandleIds :
       Built(d) =>
         \A s \in HandleIds :
           (\/ handles'[d].kind = "ref" /\ RefFromPoly(d, handles'[d].sigs, s)
            \/ handles'[d].kind = "object"
                 /\ ObjectFromPoly(d, UserSigs(handles'[d].sigs), s)) =>
             Rebuilt(handles'[d], handles[s], heap, stack, heap', stack')]_vars

C2_Witness ==
  \E d \in DispatchIds \ {1} :
    /\ handles[d].kind = "ref"
    /\ ~handles[d - 1].direct
    /\ handles[d - 1].vt_.permutation_ = <<1, 0>>
    /\ handles[d].vt_.permutation_ = <<1>>
    /\ get_ptr(handles[d]) # NULL

\* C3: copy-constructing a non-empty mutable object gives a handle that
\* owns another holder at another address with an equal value and equal
\* results for every method, leaving the source alone; and a call through
\* one handle never changes what another mutable object holds.
C3_DeepCopy ==
  [][\A d \in HandleIds :
       /\ \A s \in HandleIds :
          (Built(d) /\ IsMutable(handles[s]) /\ NonEmpty(handles[s])
             /\ CopyConstruct(d, s)) =>
            LET H == handles[s]
                H2 == handles'[d]
            IN /\ NonEmpty(H2)
               /\ H2.t_ # H.t_
               /\ PtrIn(H2, heap') # PtrIn(H, heap)
               /\ OwnersIn(H2.t_, handles') = {d}
               /\ handles'[s] = H
               /\ heap'[H.t_] = heap[H.t_]
               /\ heap'[H2.t_].T = heap[H.t_].T
               /\ heap'[H2.t_].v = heap[H.t_].v
               /\ \A m \in SigsOf(H) :
                    CallIn(H2, m, heap', stack') = CallIn(H, m, heap, stack)
       /\ (\E m \in SigsOf(handles[d]) : Call(d, m)) =>
            \A s \in HandleIds \ {d} :
              (IsMutable(handles[s]) /\ NonEmpty(handles[s])) =>
                /\ handles'[s] = handles[s]
                /\ heap'[handles[s].t_] = heap[handles[s].t_]
                /\ \A m \in SigsOf(handles[s]) :
                     CallIn(handles[s], m, heap', stack') =
                       CallIn(handles[s], m, heap, stack)]_vars

C3_Witness ==
  \E h, h2 \in HandleIds :
    /\ IsMutable(handles[h]) /\ IsMutable(handles[h2])
    /\ handles[h].direct /\ ~handles[h2].direct
    /\ NonEmpty(handles[h]) /\ NonEmpty(handles[h2])
    /\ handles[h].t_ < handles[h2].t_
    /\ heap[handles[h2].t_].v = heap[handles[h].t_].v + 1

\* C4: copy construction, copy assignment and construction from a shared
\* handle of another signature ordering make the new shared handle alias the
\* source's holder (same erased address, one more share, nothing cloned).
C4_SharedAliasing ==
  [][\A d, s \in HandleIds :
       (/\ IsShared(handles[s])
        /\ NonEmpty(handles[s])
        /\ \/ CopyConstruct(d, s)
           \/ CopyAssign(d, s) /\ d # s
           \/ \E usersigs \in OwnerSigLists :
                all_const(usersigs) /\ ObjectFromPoly(d, usersigs, s)) =>
         LET src == handles[s]
             new == handles'[d]
         IN /\ ~Rejected(last')
            /\ new.t_ = src.t_
            /\ PtrIn(new, heap') = PtrIn(src, heap)
            /\ heap'[src.t_].use_count = heap[src.t_].use_count + 1
            /\ \A id \in HolderIds : heap'[id].alloc = heap[id].alloc]_vars

\* C5: once every handle is destroyed, every holder ever allocated has had
\* its value destroyed and its storage released exactly once; no holder is
\* released or destroyed twice, nor while a handle still owns it.
C5_ReleasedExactlyOnce ==
  \A id \in Allocated :
    /\ heap[id].released <= 1
    /\ heap[id].destroyed <= 1
    /\ heap[id].released = 1 => Owners(id) = {}
    /\ (\A h \in HandleIds : handles[h] = NoHandle) =>
         (heap[id].released = 1 /\ heap[id].destroyed = 1)

\* C6: copy-assigning a non-empty mutable object to itself completes and
\* leaves it non-empty with an equal value and the same results, and every
\* holder is still owned or has been released once.
C6_SelfAssignment ==
  [][\A d \in HandleIds :
       (CopyAssign(d, d) /\ IsMutable(handles[d]) /\ NonEmpty(handles[d])) =>
         LET old == handles[d]
             new == handles'[d]
         IN /\ ~Rejected(last')
            /\ NonEmpty(new)
            /\ heap'[new.t_].released = 0
            /\ heap'[new.t_].T = heap[old.t_].T
            /\ heap'[new.t_].v = heap[old.t_].v
            /\ \A m \in SigsOf(old) :
                 CallIn(new, m, heap', stack') = CallIn(old, m, heap, stack)
            /\ \A id \in HolderIds :
                 heap'[id].alloc =>
                   /\ heap'[id].released <= 1
                   /\ heap'[id].released = 0 => OwnersIn(id, handles') # {}]_vars

\* C8: move-constructing or move-assigning a mutable object transfers the
\* source's holder without cloning: the destination reports the address the
\* source held, the source is empty, and the holder has one owner.
C8_MoveTransfers ==
  [][\A d, s \in HandleIds :
       (/\ IsMutable(handles[s])
        /\ NonEmpty(handles[s])
        /\ MoveConstruct(d, s) \/ MoveAssign(d, s)) =>
         LET src == handles[s]
             new == handles'[d]
         IN /\ ~Rejected(last')
            /\ PtrIn(new, heap') = PtrIn(src, heap)
            /\ ~operator_bool(handles'[s])
            /\ PtrIn(handles'[s], heap') = NULL
            /\ \A id \in HolderIds : heap'[id].alloc = heap[id].alloc
            /\ OwnersIn(src.t_, handles') = {d}]_vars

\* C9: an object constructed as a copy of an empty handle is empty: no
\* holder is allocated, operator bool is false and get_ptr() is null.
C9_CopyOfEmpty ==
  [][\A d, s \in HandleIds :
       (/\ Built(d)
        /\ ~NonEmpty(handles[s])
        /\ \/ CopyConstruct(d, s)
           \/ ObjectFromPoly(d, UserSigs(handles'[d].sigs), s)) =>
         /\ heap' = heap
         /\ handles'[d].kind = "object"
         /\ ~operator_bool(handles'[d])
         /\ PtrIn(handles'[d], heap') = NULL]_vars

C9_Witness ==
  \E d, s \in HandleIds :
    /\ IsMutable(handles[s])
    /\ ~NonEmpty(handles[s])
    /\ IsShared(handles[d])
    /\ ~handles[d].direct
    /\ ~NonEmpty(handles[d])
    /\ Allocated # {}

\* C10: a ref constructed from another handle takes the source's array
\* pointer and erased address as they are and owns nothing: the source, the
\* holders and the share counts are unchanged, and neither creating nor
\* destroying a ref releases anything.
C10_RefBorrows ==
  [][\A d \in HandleIds :
       /\ \A s \in HandleIds :
            (Built(d) /\ handles'[d].kind = "ref"
               /\ RefFromPoly(d, handles'[d].sigs, s)) =>
              /\ handles'[d].vt_.vptr_ = handles[s].vt_.vptr_
              /\ handles'[d].t_ = get_ptr(handles[s])
              /\ heap' = heap
              /\ stack' = stack
              /\ \A h \in HandleIds \ {d} : handles'[h] = handles[h]
       /\ (Destroy(d) /\ handles[d].kind = "ref") =>
            /\ heap' = heap
            /\ stack' = stack
            /\ \A h \in HandleIds \ {d} : handles'[h] = handles[h]]_vars

C10_Witness ==
  \E d \in DispatchIds \ {1} :
    /\ handles[d].kind = "ref"
    /\ IsShared(handles[d - 1])
    /\ NonEmpty(handles[d - 1])
    /\ heap[handles[d - 1].t_].use_count = 1
    /\ handles[d].t_ = get_ptr(handles[d - 1])
    /\ handles[d].sigs # handles[d - 1].sigs

\* C7 as stated: the capacity is 256 signatures.
C7_Capacity256 ==
  tbl.built \in {"accepted", "rejected"} =>
    /\ tbl.nsig > IndexTypeMax + 1 => tbl.built = "rejected"
    /\ tbl.nsig <= IndexTypeMax + 1 => tbl.built = "accepted"
    /\ (tbl.built = "accepted" /\ tbl.slot > 0) =>
         (tbl.slot - 1 \in 0..IndexTypeMax /\ tbl.entry \in 0..IndexTypeMax)

\* C7, amended: the capacity is 255 signatures (the clone signature of an
\* object included): a longer table is rejected when it is built, a table of
\* at most 255 is accepted, and every slot index and permutation entry of an
\* accepted table lies in 0..255, the entry being the slot index itself.
C7_Capacity255 ==
  tbl.built \in {"accepted", "rejected"} =>
    /\ tbl.nsig > IndexTypeMax => tbl.built = "rejected"
    /\ tbl.nsig <= IndexTypeMax => tbl.built = "accepted"
    /\ (tbl.built = "accepted" /\ tbl.slot > 0) =>
         /\ tbl.slot - 1 \in 0..IndexTypeMax
         /\ tbl.entry \in 0..IndexTypeMax
         /\ tbl.entry = tbl.slot - 1

C7_Witness ==
  /\ tbl.built = "accepted"
  /\ tbl.owning
  /\ tbl.nsig = IndexTypeMax
  /\ tbl.slot = tbl.nsig

====
